---- MODULE Spec2Model ----
(***************************************************************************)
(* A model of the Wordle game of src/game.js: the scoring of a guess, the  *)
(* session (row, cursor, terminal flag), the input gate (isValidating),    *)
(* the asynchronous submission pipeline (validator promise, reveal timers, *)
(* result timer, remote stats save), the statistics, and the snapshot of   *)
(* a session in localStorage across page loads.                            *)
(*                                                                         *)
(* Rows, columns and positions are 0-based in the source; the board is     *)
(* indexed <<row, col>> with the source's 0-based numbers, while words     *)
(* (guess, targetWord, letterStatus) are sequences, so position i of the   *)
(* source is element i + 1 here.                                           *)
(***************************************************************************)
EXTENDS Integers, Sequences, FiniteSets, TLC

----------------------------------------------------------------------------
(* Bounds.  GAME_CONFIG sets WORD_LENGTH to 5 and MAX_ATTEMPTS to 6; the   *)
(* model keeps the names and scales the values down.                       *)
WORD_LENGTH == 2
MAX_ATTEMPTS == 2
\* Sessions started anew, by resetGame or by a page load, after the first.
MaxRestarts == 1
\* The word length of the scoring specification.
ScoreLength == 3

\* The letter keys of the modelled keyboard (KEYBOARD_LAYOUT has 26).
Letters == {"A", "B"}
\* The alphabet of the scoring specification.
ScoreLetters == {"A", "B", "C"}

Words(alphabet, n) == [1..n -> alphabet]

\* The target list: every word over Letters that starts with "A" (the game
\* treats letters alike, so the other words are renamings of these).
WORDS == {w \in Words(Letters, WORD_LENGTH) : w[1] = "A"}

DEFAULT_STATS ==
    [gamesPlayed |-> 0, gamesWon |-> 0, currentStreak |-> 0, maxStreak |-> 0]

\* JavaScript's null in targetArray: equal to no letter.
null == "null"

----------------------------------------------------------------------------
VARIABLES
    targetWord, currentRow, currentTile, gameOver, stats,   \* game.js 6-11
    isValidating, inputEnabled,                             \* game.js 16-17
    gameStarted,                                            \* game.js 27
    board,          \* the tiles: <<row, col>> -> [content, className]
    keyClass,       \* the status class of each on-screen letter key
    localStorage,   \* [gameState, activeGame, wordleStats]
    sessionStorage, \* whether SESSION_KEY is set in this tab
    phase,          \* "loading" (initGame awaits the cloud), "running", "failed"
    validations,    \* guesses whose isValidWord promise is pending
    pipelines,      \* accepted guesses whose timers are pending
                    \* (both carry, as history, the session and the row
                    \* of the submission)
    pendingSaves,   \* endGameWon/endGameLost calls awaiting saveStatsToSupabase
    restarts,       \* resets and page loads so far
    scenario,       \* "play": the player stays on the page and may reset at
                    \* any moment; "leave": the player may switch tabs and
                    \* reload, and resets only between submissions
    lastEvent,      \* history: "enter", "invalid" or "error" when the last
                    \* event was an ENTER key or that answer of the
                    \* validator, "boundary" when it was a delete key at
                    \* cursor 0 or a letter key at cursor WORD_LENGTH,
                    \* "other" after any other event
    scoreGuess, scoreTarget, scoreState, scorePc  \* the scoring specification

gameVars ==
    <<targetWord, currentRow, currentTile, gameOver, stats, isValidating,
      inputEnabled, gameStarted, board, keyClass, localStorage, sessionStorage,
      phase, validations, pipelines, pendingSaves, restarts, scenario, lastEvent>>

scoreVars == <<scoreGuess, scoreTarget, scoreState, scorePc>>

vars == <<gameVars, scoreVars>>

----------------------------------------------------------------------------
(* processGuess, lines 337-357: the two passes over the positions         *)
(* 0..WORD_LENGTH-1 of a guess and a target of that length.  The word      *)
(* length is the length of the arguments, so that the scoring              *)
(* specification can run the same loops on longer words than the game      *)
(* model's.                                                                *)

\* Array.prototype.indexOf, 1-based; 0 where the source gets -1.
IndexOf(arr, x) ==
    IF \E k \in 1..Len(arr) : arr[k] = x
    THEN CHOOSE k \in 1..Len(arr) :
            arr[k] = x /\ \A j \in 1..(k - 1) : arr[j] # x
    ELSE 0

\* Lines 337-339: targetArray and letterStatus before the first pass.
ScoreStart(target) ==
    [letterStatus |-> [i \in 1..Len(target) |-> "absent"], targetArray |-> target]

\* A first pass that marks without consuming the target letter.
FirstPassStepNoConsume(st, guessArray, i) ==
    IF guessArray[i] = st.targetArray[i]
    THEN [st EXCEPT !.letterStatus[i] = "correct"]
    ELSE st

\* Lines 343-346: the body of the first loop at position i.
FirstPassStep(st, guessArray, i) ==
    IF guessArray[i] = st.targetArray[i]
    THEN [letterStatus |-> [st.letterStatus EXCEPT ![i] = "correct"],
          targetArray  |-> [st.targetArray EXCEPT ![i] = null]]
    ELSE st

\* A second pass that marks without consuming the target letter.
SecondPassStepNoConsume(st, guessArray, i) ==
    IF st.letterStatus[i] = "correct" THEN st
    ELSE IF IndexOf(st.targetArray, guessArray[i]) # 0
         THEN [st EXCEPT !.letterStatus[i] = "present"]
         ELSE st

\* Lines 351-356: the body of the second loop at position i.
SecondPassStep(st, guessArray, i) ==
    IF st.letterStatus[i] = "correct" THEN st
    ELSE LET index == IndexOf(st.targetArray, guessArray[i])
         IN  IF index # 0
             THEN [letterStatus |-> [st.letterStatus EXCEPT ![i] = "present"],
                   targetArray  |-> [st.targetArray EXCEPT ![index] = null]]
             ELSE st

RECURSIVE FirstPass(_, _, _)
FirstPass(st, guessArray, n) ==
    IF n = 0 THEN st
    ELSE FirstPassStep(FirstPass(st, guessArray, n - 1), guessArray, n)

RECURSIVE SecondPass(_, _, _)
SecondPass(st, guessArray, n) ==
    IF n = 0 THEN st
    ELSE SecondPassStep(SecondPass(st, guessArray, n - 1), guessArray, n)

\* letterStatus as processGuess has it at line 358.
LetterStatusOf(guess, target) ==
    SecondPass(FirstPass(ScoreStart(target), guess, Len(guess)),
               guess, Len(guess)).letterStatus

----------------------------------------------------------------------------
(* The scoring specification: a guess and a target are drawn, then the two *)
(* loops of processGuess run one position per step.                        *)

ScoreIdle ==
    /\ scoreGuess = <<>>
    /\ scoreTarget = <<>>
    /\ scoreState = ScoreStart(<<>>)
    /\ scorePc = 0

ScoreFirstPass ==
    /\ scoreGuess # <<>>
    /\ scorePc < ScoreLength
    /\ scoreState' = FirstPassStep(scoreState, scoreGuess, scorePc + 1)
    /\ scorePc' = scorePc + 1
    /\ UNCHANGED <<scoreGuess, scoreTarget>>

ScoreSecondPass ==
    /\ scoreGuess # <<>>
    /\ scorePc >= ScoreLength
    /\ scorePc < 2 * ScoreLength
    /\ scoreState' =
          SecondPassStep(scoreState, scoreGuess, scorePc - ScoreLength + 1)
    /\ scorePc' = scorePc + 1
    /\ UNCHANGED <<scoreGuess, scoreTarget>>

----------------------------------------------------------------------------
(* The page: tiles, keys, storage.                                         *)

Rows == 0..(MAX_ATTEMPTS - 1)
Cols == 0..(WORD_LENGTH - 1)

\* createBoard, lines 204-217: every tile empty, className "tile".
EmptyBoard == [t \in Rows \X Cols |-> [content |-> "", className |-> {}]]

\* createKeyboard, lines 245-260: every letter key has className "key".
PlainKeys == [l \in Letters |-> ""]

\* The tiles and the on-screen keyboard exist once initGame has passed
\* createBoard and createKeyboard (lines 192-193).
boardCreated == phase = "running"

\* localStorage.getItem(STORAGE_KEYS.STATS) parsed, || DEFAULT_STATS
\* (lines 10-11, 180-181, 186-187).
LocalStatsOrDefault(ls) ==
    IF ls.wordleStats = <<>> THEN DEFAULT_STATS ELSE ls.wordleStats[1]

\* Lines 465-466, 121-122, 408-409, 431-432: both keys removed.
RemoveGameKeys(ls) == [ls EXCEPT !.gameState = <<>>, !.activeGame = ""]

\* Lines 36-47: the tiles in row-major order.
BoardState(b) ==
    [k \in 1..(MAX_ATTEMPTS * WORD_LENGTH) |->
        LET i == (k - 1) \div WORD_LENGTH
            j == (k - 1) % WORD_LENGTH
        IN  [row |-> i, col |-> j,
             content |-> b[<<i, j>>].content,
             className |-> b[<<i, j>>].className]]

\* A save that writes the snapshot of a terminal session too.
saveCompleteGameStateAlways(ls) ==
    IF gameStarted /\ boardCreated
    THEN [ls EXCEPT
            !.gameState = <<[json |-> "complete",
                             active |-> TRUE, targetWord |-> targetWord,
                             currentRow |-> currentRow,
                             currentTile |-> currentTile,
                             gameOver |-> gameOver,
                             boardState |-> BoardState(board)]>>,
            !.activeGame = "true"]
    ELSE ls

\* The text stored under GAME_STATE_KEY is, in its field json, one of:
\* "complete", what JSON.stringify of line 60 writes; "noBoardState", an
\* object with the other fields but without boardState; "unparsable", a
\* text JSON.parse rejects.  The program writes complete snapshots only.
\*
\* saveCompleteGameState, lines 33-63 (the timestamp is left out): the
\* storage after the call.  Without tiles (document.getElementById gives
\* null) line 43 throws before anything is written.
saveCompleteGameState(ls) ==
    IF gameStarted /\ ~gameOver /\ boardCreated
    THEN [ls EXCEPT
            !.gameState = <<[json |-> "complete",
                             active |-> TRUE, targetWord |-> targetWord,
                             currentRow |-> currentRow,
                             currentTile |-> currentTile,
                             gameOver |-> gameOver,
                             boardState |-> BoardState(board)]>>,
            !.activeGame = "true"]
    ELSE ls

\* restoreGameState, line 73: whether the restore branch is taken.
CanRestore(ls) == ls.activeGame = "true" /\ ls.gameState # <<>>

\* restoreGameState, lines 85-91: the tiles after the forEach; a tile that
\* does not exist yet (tileEl is null) is skipped.
RestoreBoard(b, boardState, tilesExist) ==
    IF ~tilesExist THEN b
    ELSE [t \in Rows \X Cols |->
            IF \E k \in 1..Len(boardState) :
                  boardState[k].row = t[1] /\ boardState[k].col = t[2]
            THEN LET k == CHOOSE k \in 1..Len(boardState) :
                            /\ boardState[k].row = t[1]
                            /\ boardState[k].col = t[2]
                 IN  [content |-> boardState[k].content,
                      className |-> boardState[k].className]
            ELSE b[t]]

\* Lines 301-305: the text of the tiles of a row, concatenated.
RowText(b, row) ==
    SelectSeq([i \in 1..WORD_LENGTH |-> b[<<row, i - 1>>].content],
              LAMBDA c : c # "")

\* A key colour that follows the last reveal.
updateKeyColorOverwrite(currentStatus, status) == status

\* updateKeyColor, lines 277-287: the key's status class after the call.
updateKeyColor(currentStatus, status) ==
    IF currentStatus = "correct" THEN currentStatus
    ELSE IF currentStatus = "present" /\ status = "absent" THEN currentStatus
    ELSE status

\* A win that takes the streak itself as the longest streak.
StatsAfterWinStreakAsMax(s) ==
    [gamesPlayed |-> s.gamesPlayed + 1,
     gamesWon |-> s.gamesWon + 1,
     currentStreak |-> s.currentStreak + 1,
     maxStreak |-> s.currentStreak + 1]

\* endGameWon, lines 391-394.
StatsAfterWin(s) ==
    LET streak == s.currentStreak + 1
    IN  [gamesPlayed |-> s.gamesPlayed + 1,
         gamesWon |-> s.gamesWon + 1,
         currentStreak |-> streak,
         maxStreak |-> IF s.maxStreak >= streak THEN s.maxStreak ELSE streak]

\* A loss that clears the longest streak along with the current one.
StatsAfterLossClearsMax(s) ==
    [s EXCEPT !.gamesPlayed = s.gamesPlayed + 1, !.currentStreak = 0,
              !.maxStreak = 0]

\* A loss that leaves the streak.
StatsAfterLossKeepsStreak(s) ==
    [s EXCEPT !.gamesPlayed = s.gamesPlayed + 1]

\* endGameLost, lines 416-417.
StatsAfterLoss(s) ==
    [s EXCEPT !.gamesPlayed = s.gamesPlayed + 1, !.currentStreak = 0]

\* Submissions in flight: pending validator answers and pending timers.
InFlight == Len(validations) + Len(pipelines)

RemoveAt(seq, k) == [i \in 1..(Len(seq) - 1) |-> IF i < k THEN seq[i] ELSE seq[i + 1]]

----------------------------------------------------------------------------
(* Key handling, lines 219-275 and 292-334.  Each handler below states the *)
(* variables a key event can touch: currentTile, gameStarted, board,       *)
(* isValidating and validations.  The texts of showMessage are left out.   *)

keyTouched == <<currentTile, gameStarted, board, isValidating, validations>>

\* addLetter, lines 219-231.  Without tiles, line 228 throws after line 224.
addLetter(letter) ==
    IF currentTile >= WORD_LENGTH
    THEN UNCHANGED keyTouched
    ELSE /\ gameStarted' = (IF currentTile = 0 /\ currentRow = 0
                            THEN TRUE ELSE gameStarted)
         /\ IF boardCreated
            THEN /\ board' = [board EXCEPT ![<<currentRow, currentTile>>] =
                                [content |-> letter,
                                 className |-> @.className \cup {"filled"}]]
                 /\ currentTile' = currentTile + 1
            ELSE UNCHANGED <<board, currentTile>>
         /\ UNCHANGED <<isValidating, validations>>

\* A delete without the test of line 234.
deleteLetterNoGuard ==
    /\ currentTile' = currentTile - 1
    /\ UNCHANGED <<gameStarted, board, isValidating, validations>>

\* deleteLetter, lines 233-240.
deleteLetter ==
    IF currentTile > 0
    THEN /\ currentTile' = currentTile - 1
         /\ IF boardCreated
            THEN board' = [board EXCEPT ![<<currentRow, currentTile - 1>>] =
                              [content |-> "",
                               className |-> @.className \ {"filled"}]]
            ELSE UNCHANGED board
         /\ UNCHANGED <<gameStarted, isValidating, validations>>
    ELSE UNCHANGED keyTouched

\* submitGuess, lines 292-334, up to the call of the validator: the guard,
\* the two early returns, the lock, and the pending isValidWord promise.
\* Without tiles line 304 throws.
submitGuess ==
    IF isValidating
    THEN UNCHANGED keyTouched
    ELSE IF currentTile < WORD_LENGTH
    THEN UNCHANGED keyTouched
    ELSE IF ~boardCreated
    THEN UNCHANGED keyTouched
    ELSE IF Len(RowText(board, currentRow)) # WORD_LENGTH
    THEN UNCHANGED keyTouched
    ELSE /\ isValidating' = TRUE
         /\ validations' = Append(validations,
                                  [guess |-> RowText(board, currentRow),
                                   session |-> restarts, row |-> currentRow])
         /\ UNCHANGED <<currentTile, gameStarted, board>>

\* handleKeyPress without the guards of lines 265-266.
handleKeyPressNoValidatingGuard(key) ==
    IF gameOver THEN UNCHANGED keyTouched
    ELSE IF ~inputEnabled THEN UNCHANGED keyTouched
    ELSE IF key = "ENTER" THEN submitGuess
    ELSE IF key = "DEL" THEN deleteLetter
    ELSE IF currentTile < WORD_LENGTH THEN addLetter(key)
    ELSE UNCHANGED keyTouched

\* handleKeyPress without the guard of line 263.
handleKeyPressNoGameOverGuard(key) ==
    IF ~inputEnabled THEN UNCHANGED keyTouched
    ELSE IF isValidating /\ key = "ENTER" THEN UNCHANGED keyTouched
    ELSE IF isValidating /\ key = "DEL" THEN UNCHANGED keyTouched
    ELSE IF key = "ENTER" THEN submitGuess
    ELSE IF key = "DEL" THEN deleteLetter
    ELSE IF currentTile < WORD_LENGTH THEN addLetter(key)
    ELSE UNCHANGED keyTouched

\* handleKeyPress, lines 262-275.  "DEL" stands for the key "⌫".
handleKeyPress(key) ==
    IF gameOver THEN UNCHANGED keyTouched
    ELSE IF ~inputEnabled THEN UNCHANGED keyTouched
    ELSE IF isValidating /\ key = "ENTER" THEN UNCHANGED keyTouched
    ELSE IF isValidating /\ key = "DEL" THEN UNCHANGED keyTouched
    ELSE IF key = "ENTER" THEN submitGuess
    ELSE IF key = "DEL" THEN deleteLetter
    ELSE IF currentTile < WORD_LENGTH THEN addLetter(key)
    ELSE UNCHANGED keyTouched

KeyNames == Letters \cup {"ENTER", "DEL"}

\* What lastEvent records of a key event: "enter"; "boundary" for the
\* delete key at cursor 0 and a letter at cursor WORD_LENGTH; else "other".
KeyEvent(key) ==
    IF key = "ENTER" THEN "enter"
    ELSE IF key = "DEL" /\ currentTile = 0 THEN "boundary"
    ELSE IF key \in Letters /\ currentTile = WORD_LENGTH THEN "boundary"
    ELSE "other"

keyFrame ==
    <<targetWord, currentRow, gameOver, stats, inputEnabled, keyClass,
      localStorage, sessionStorage, phase, pipelines, pendingSaves, restarts,
      scenario, scoreVars>>

\* Line 255: a click on a button of the on-screen keyboard.
KeyboardClick(key) ==
    /\ boardCreated
    /\ handleKeyPress(key)
    /\ lastEvent' = KeyEvent(key)
    /\ UNCHANGED keyFrame

\* Lines 608-627: the keydown listener of the physical keyboard, for the
\* keys Enter, Backspace and the letters, outside input fields.
Keydown(key) ==
    /\ IF gameOver THEN UNCHANGED keyTouched
       ELSE IF ~inputEnabled THEN UNCHANGED keyTouched
       ELSE IF isValidating /\ key = "ENTER" THEN UNCHANGED keyTouched
       ELSE handleKeyPress(key)
    /\ lastEvent' = KeyEvent(key)
    /\ UNCHANGED keyFrame

\* A key event of either keyboard.
KeyStep == \E key \in KeyNames : KeyboardClick(key) \/ Keydown(key)

----------------------------------------------------------------------------
(* The submission pipeline, lines 317-435.                                 *)

\* An invalid-word branch that leaves the lock set.
rejectInvalidKeepsLock ==
    UNCHANGED <<isValidating, pipelines>>

\* Lines 320-324: the word is not in the list.
rejectInvalid ==
    /\ isValidating' = FALSE
    /\ UNCHANGED pipelines

\* An error branch that leaves the lock set.
catchErrorKeepsLock ==
    UNCHANGED <<isValidating, pipelines>>

\* Lines 329-333: the validator's promise rejected.
catchError ==
    /\ isValidating' = FALSE
    /\ UNCHANGED pipelines

\* processGuess, lines 336-373: letterStatus is computed against the
\* targetWord of this moment, and WORD_LENGTH reveal timers and the result
\* timer are scheduled; next counts the timers of this guess that fired.
processGuess(submission) ==
    /\ pipelines' = Append(pipelines,
                           [guess |-> submission.guess,
                            letterStatus |->
                                LetterStatusOf(submission.guess, targetWord),
                            next |-> 0,
                            session |-> submission.session,
                            row |-> submission.row])
    /\ UNCHANGED isValidating

Answers == {"valid", "invalid", "error"}

\* The isValidWord promise of the k-th pending guess settles: true, false
\* or rejected (lines 319-333).
ValidatorAnswers(k, answer) ==
    /\ k \in 1..Len(validations)
    /\ validations' = RemoveAt(validations, k)
    /\ CASE answer = "valid"   -> processGuess(validations[k])
         [] answer = "invalid" -> rejectInvalid
         [] answer = "error"   -> catchError
    /\ lastEvent' = (IF answer = "valid" THEN "other" ELSE answer)
    /\ UNCHANGED <<targetWord, currentRow, currentTile, gameOver, stats,
                   inputEnabled, gameStarted, board, keyClass, localStorage,
                   sessionStorage, phase, pendingSaves, restarts, scenario, scoreVars>>

\* GAME_CONFIG.ANIMATION_DELAY and GAME_CONFIG.FLIP_ANIMATION_DURATION, in ms.
ANIMATION_DELAY == 300

FLIP_ANIMATION_DURATION == 1500

\* The timers processGuess registers (lines 360-372), numbered in the order
\* of registration: timer n <= WORD_LENGTH is the reveal of position n - 1,
\* timer WORD_LENGTH + 1 is the result check.
Timers == 1..(WORD_LENGTH + 1)

\* The delay each setTimeout call is given (lines 366 and 372).
TimerDelay(n) ==
    IF n <= WORD_LENGTH THEN (n - 1) * ANIMATION_DELAY
    ELSE FLIP_ANIMATION_DURATION

\* Timers set in one task run in the order of their delays, and timers of
\* equal delay in the order they were set.
FiresBefore(m, n) ==
    \/ TimerDelay(m) < TimerDelay(n)
    \/ TimerDelay(m) = TimerDelay(n) /\ m < n

\* The timer of a guess that runs once `fired` of its timers have run.
NextTimer(fired) ==
    CHOOSE n \in Timers :
        Cardinality({m \in Timers : FiresBefore(m, n)}) = fired

\* The timers of a guess once one more has run (next counts them): the
\* guess is done when all have.
TimerRan(k) ==
    IF pipelines[k].next + 1 = WORD_LENGTH + 1
    THEN RemoveAt(pipelines, k)
    ELSE [pipelines EXCEPT ![k].next = @ + 1]

\* Timers fire in the order of their due times: the n-th timer of a guess
\* accepted earlier is due before the n-th timer of a guess accepted later.
TimerDue(k) ==
    /\ k \in 1..Len(pipelines)
    /\ \A j \in 1..(k - 1) : pipelines[j].next > pipelines[k].next

\* Lines 361-365: the reveal timer of the k-th guess that is due next.
RevealTimer(k) ==
    /\ TimerDue(k)
    /\ NextTimer(pipelines[k].next) <= WORD_LENGTH
    /\ LET p == pipelines[k]
           i == NextTimer(p.next) - 1
       IN  /\ board' = [board EXCEPT ![<<currentRow, i>>].className =
                                        @ \cup {p.letterStatus[i + 1]}]
           /\ keyClass' = [keyClass EXCEPT ![p.guess[i + 1]] =
                              updateKeyColor(@, p.letterStatus[i + 1])]
           /\ pipelines' = TimerRan(k)
    /\ lastEvent' = "other"
    /\ UNCHANGED <<targetWord, currentRow, currentTile, gameOver, stats,
                   isValidating, inputEnabled, gameStarted, localStorage,
                   sessionStorage, phase, validations, pendingSaves, restarts,
                   scenario, scoreVars>>

\* endGameWon, lines 389-398, up to the await of saveStatsToSupabase.
endGameWon ==
    /\ gameOver' = TRUE
    /\ stats' = StatsAfterWin(stats)
    /\ pendingSaves' = pendingSaves + 1
    /\ UNCHANGED <<currentRow, currentTile>>

\* endGameLost, lines 414-422, up to the await of saveStatsToSupabase.
endGameLost ==
    /\ gameOver' = TRUE
    /\ stats' = StatsAfterLoss(stats)
    /\ pendingSaves' = pendingSaves + 1
    /\ UNCHANGED <<currentRow, currentTile>>

\* A result check without the test for the last row.
checkGameResultNoLoss(guess) ==
    IF guess = targetWord THEN endGameWon
    ELSE /\ currentRow' = currentRow + 1
         /\ currentTile' = 0
         /\ UNCHANGED <<gameOver, stats, pendingSaves>>

\* checkGameResult, lines 375-384, up to its first suspension.
checkGameResult(guess) ==
    IF guess = targetWord THEN endGameWon
    ELSE IF currentRow = MAX_ATTEMPTS - 1 THEN endGameLost
    ELSE /\ currentRow' = currentRow + 1
         /\ currentTile' = 0
         /\ UNCHANGED <<gameOver, stats, pendingSaves>>

\* A result timer that forgets to unlock.
ResultTimerKeepsLock(k) ==
    /\ TimerDue(k)
    /\ NextTimer(pipelines[k].next) = WORD_LENGTH + 1
    /\ checkGameResult(pipelines[k].guess)
    /\ pipelines' = TimerRan(k)
    /\ lastEvent' = "other"
    /\ UNCHANGED <<targetWord, isValidating, inputEnabled, gameStarted, board,
                   keyClass, localStorage, sessionStorage, phase, validations,
                   restarts, scenario, scoreVars>>

\* Lines 369-372: the result timer of the k-th guess.  checkGameResult is
\* async: it returns at its first await, or with a rejected promise, and
\* line 371 runs in either case.
ResultTimer(k) ==
    /\ TimerDue(k)
    /\ NextTimer(pipelines[k].next) = WORD_LENGTH + 1
    /\ checkGameResult(pipelines[k].guess)
    /\ isValidating' = FALSE
    /\ pipelines' = TimerRan(k)
    /\ lastEvent' = "other"
    /\ UNCHANGED <<targetWord, inputEnabled, gameStarted, board, keyClass,
                   localStorage, sessionStorage, phase, validations, restarts,
                   scenario, scoreVars>>

\* Lines 401-411 and 424-434: what endGameWon and endGameLost do once the
\* awaited saveStatsToSupabase has resolved.  (When saveStatsToSupabase is
\* not defined there is no await: that run is this step taken at once.)
afterSave ==
    /\ localStorage' =
          RemoveGameKeys([localStorage EXCEPT !.wordleStats = <<stats>>])
    /\ gameStarted' = FALSE

\* The awaited saveStatsToSupabase settles.  Resolved: the function goes
\* on.  Rejected: the await throws, and the rest of endGameWon /
\* endGameLost does not run.
SaveSettles(ok) ==
    /\ pendingSaves > 0
    /\ pendingSaves' = pendingSaves - 1
    /\ IF ok
       THEN afterSave
       ELSE UNCHANGED <<localStorage, gameStarted>>
    /\ lastEvent' = "other"
    /\ UNCHANGED <<targetWord, currentRow, currentTile, gameOver, stats,
                   isValidating, inputEnabled, board, keyClass, sessionStorage,
                   phase, validations, pipelines, restarts, scenario, scoreVars>>

----------------------------------------------------------------------------
(* Reset, snapshot and page load.                                          *)

\* resetToNewGame, lines 459-494, as resetGame calls it (skipBoardClear
\* false).  The button belongs to the page of a running game.
ResetGame ==
    /\ boardCreated
    /\ restarts < MaxRestarts
    /\ scenario = "play" \/ InFlight = 0
    /\ restarts' = restarts + 1
    /\ localStorage' = RemoveGameKeys(localStorage)
    /\ targetWord' \in WORDS
    /\ currentRow' = 0
    /\ currentTile' = 0
    /\ gameOver' = FALSE
    /\ gameStarted' = FALSE
    /\ isValidating' = FALSE
    /\ inputEnabled' = TRUE
    /\ board' = EmptyBoard
    /\ keyClass' = PlainKeys
    /\ lastEvent' = "other"
    /\ UNCHANGED <<stats, sessionStorage, phase, validations, pipelines,
                   pendingSaves, scenario, scoreVars>>

\* Lines 156-160: the page becomes hidden (a tab switch).  The listener is
\* registered by setupRefreshProtection, which initGame reaches at line 191.
VisibilityHidden ==
    /\ boardCreated
    /\ scenario = "leave"
    /\ localStorage' = IF gameStarted /\ ~gameOver
                       THEN saveCompleteGameState(localStorage)
                       ELSE localStorage
    /\ lastEvent' = "other"
    /\ UNCHANGED <<targetWord, currentRow, currentTile, gameOver, stats,
                   isValidating, inputEnabled, gameStarted, board, keyClass,
                   sessionStorage, phase, validations, pipelines, pendingSaves,
                   restarts, scenario, scoreVars>>

\* The module-level state of a fresh process, lines 6-27; the target is
\* drawn at random.
FreshProcess(ls) ==
    /\ targetWord' \in WORDS
    /\ currentRow' = 0
    /\ currentTile' = 0
    /\ gameOver' = FALSE
    /\ stats' = LocalStatsOrDefault(ls)
    /\ isValidating' = FALSE
    /\ inputEnabled' = TRUE
    /\ gameStarted' = FALSE
    /\ board' = EmptyBoard
    /\ keyClass' = PlainKeys
    /\ phase' = "loading"
    /\ validations' = <<>>
    /\ pipelines' = <<>>
    /\ pendingSaves' = 0

\* The page unloads and is loaded again.  Lines 134-136 and 163-165: the
\* beforeunload and unload listeners (registered at line 191) each call
\* saveCompleteGameState.  The old process ends with its pending promises
\* and timers; the script runs again.  A reload in the same tab keeps
\* sessionStorage, a new tab or window starts with an empty one.
\* lastEvent notes an unload that cut a submission short.
Unload(sameTab) ==
    /\ scenario = "leave"
    /\ restarts < MaxRestarts
    /\ restarts' = restarts + 1
    /\ LET ls == IF boardCreated
                 THEN saveCompleteGameState(localStorage)
                 ELSE localStorage
       IN  /\ localStorage' = ls
           /\ FreshProcess(ls)
    /\ sessionStorage' = (sameTab /\ sessionStorage)
    /\ lastEvent' = (IF InFlight > 0 THEN "cut" ELSE "other")
    /\ UNCHANGED <<scenario, scoreVars>>

\* restoreGameState, lines 69-103, with what initSessionProtection does
\* when it returns false (lines 119-123).  JSON.parse of an unparsable
\* text throws at line 75, before any assignment.  Without boardState,
\* lines 78-82 assign and line 85 throws; the catch returns false, and
\* lines 120-122 run on top of the assignments.
restoreGameState(tilesExist) ==
    IF CanRestore(localStorage) /\ localStorage.gameState[1].json # "unparsable"
    THEN LET state == localStorage.gameState[1]
         IN  /\ targetWord' = state.targetWord
             /\ currentRow' = state.currentRow
             /\ currentTile' = state.currentTile
             /\ gameOver' = state.gameOver
             /\ IF state.json = "complete"
                THEN /\ gameStarted' = TRUE
                     /\ board' = RestoreBoard(board, state.boardState, tilesExist)
                     /\ UNCHANGED localStorage
                ELSE /\ gameStarted' = FALSE
                     /\ localStorage' = RemoveGameKeys(localStorage)
                     /\ UNCHANGED board
    ELSE /\ gameStarted' = FALSE
         /\ localStorage' = RemoveGameKeys(localStorage)
         /\ UNCHANGED <<targetWord, currentRow, currentTile, gameOver, board>>

\* initSessionProtection, lines 109-125.  initGame calls it at line 190,
\* before createBoard at line 192, so no tile exists during the restore;
\* createBoard then appends the empty tiles.
initSessionProtection ==
    IF ~sessionStorage
    THEN /\ sessionStorage' = TRUE
         /\ restoreGameState(boardCreated)
    ELSE UNCHANGED <<sessionStorage, targetWord, currentRow, currentTile,
                     gameOver, gameStarted, board, localStorage>>

\* loadStatsFromSupabase: stats, null, or a rejected promise.  The remote
\* store and localStorage are written together (lines 398-402 and 421-425),
\* so the stats the remote store returns are those localStorage holds.
LoadOutcomes ==
    {"null", "reject"} \cup
    (IF localStorage.wordleStats # <<>> THEN {"cloud"} ELSE {})

\* initGame, lines 171-199: the awaited loadStatsFromSupabase settles and
\* the rest of initGame runs.  (When loadStatsFromSupabase is not defined,
\* lines 186-187 give what the outcome null gives.)  A rejected promise
\* makes line 174 throw: none of lines 175-198 runs.
InitGame(outcome) ==
    /\ phase = "loading"
    /\ outcome \in LoadOutcomes
    /\ IF outcome = "reject"
       THEN /\ phase' = "failed"
            /\ UNCHANGED <<stats, sessionStorage, targetWord, currentRow,
                           currentTile, gameOver, gameStarted, board,
                           localStorage>>
       ELSE /\ stats' = IF outcome = "cloud" THEN localStorage.wordleStats[1]
                        ELSE LocalStatsOrDefault(localStorage)
            /\ initSessionProtection
            /\ phase' = "running"
    /\ lastEvent' = "other"
    /\ UNCHANGED <<isValidating, inputEnabled, keyClass, validations,
                   pipelines, pendingSaves, restarts, scenario, scoreVars>>

----------------------------------------------------------------------------
(* The game specification: the first visit of a browser with empty         *)
(* storage, then any interleaving of the events.                           *)

GameInit ==
    /\ targetWord \in WORDS
    /\ currentRow = 0
    /\ currentTile = 0
    /\ gameOver = FALSE
    /\ stats = DEFAULT_STATS
    /\ isValidating = FALSE
    /\ inputEnabled = TRUE
    /\ gameStarted = FALSE
    /\ board = EmptyBoard
    /\ keyClass = PlainKeys
    /\ localStorage = [gameState |-> <<>>, activeGame |-> "", wordleStats |-> <<>>]
    /\ sessionStorage = FALSE
    /\ phase = "loading"
    /\ validations = <<>>
    /\ pipelines = <<>>
    /\ pendingSaves = 0
    /\ restarts = 0
    /\ scenario \in {"play", "leave"}
    /\ lastEvent = "other"

Init == GameInit /\ ScoreIdle

\* At most one submission is in flight per session started.
Slots == 1..(MaxRestarts + 1)

Next ==
    \/ \E key \in KeyNames : KeyboardClick(key)
    \/ \E key \in KeyNames : Keydown(key)
    \/ \E k \in Slots, answer \in Answers : ValidatorAnswers(k, answer)
    \/ \E k \in Slots : RevealTimer(k)
    \/ \E k \in Slots : ResultTimer(k)
    \/ \E ok \in BOOLEAN : SaveSettles(ok)
    \/ ResetGame
    \/ VisibilityHidden
    \/ \E sameTab \in BOOLEAN : Unload(sameTab)
    \/ \E outcome \in {"cloud", "null", "reject"} : InitGame(outcome)

Spec == Init /\ [][Next]_vars

\* The submission pipeline is fair: a pending isValidWord promise settles
\* and a due timer fires.
Fairness ==
    /\ WF_vars(\E k \in Slots, answer \in Answers : ValidatorAnswers(k, answer))
    /\ WF_vars(\E k \in Slots : RevealTimer(k))
    /\ WF_vars(\E k \in Slots : ResultTimer(k))

\* The liveness specification follows a player who may leave the page.
FairInit == Init /\ scenario = "leave"

FairSpec == FairInit /\ [][Next]_vars /\ Fairness

----------------------------------------------------------------------------
(* The scoring specification.                                              *)

ScoreInit ==
    /\ GameInit
    /\ targetWord = CHOOSE w \in WORDS : TRUE
    /\ scenario = "play"
    /\ scoreGuess \in Words(ScoreLetters, ScoreLength)
    /\ scoreTarget \in Words(ScoreLetters, ScoreLength)
    /\ scoreState = ScoreStart(scoreTarget)
    /\ scorePc = 0

ScoreNext ==
    \/ ScoreFirstPass /\ UNCHANGED gameVars
    \/ ScoreSecondPass /\ UNCHANGED gameVars

ScoreSpec == ScoreInit /\ [][ScoreNext]_vars

----------------------------------------------------------------------------
(* The visit specification: one visit to the page, in a browser whose      *)
(* storage holds what earlier visits, or any other writer of the origin's  *)
(* storage, left there.  The player neither resets nor leaves.             *)

\* The games played in earlier visits.
MaxPastGames == 3

\* The stats after at most n games, each won or lost, from DEFAULT_STATS.
RECURSIVE PastStats(_)
PastStats(n) ==
    IF n = 0 THEN {DEFAULT_STATS}
    ELSE LET before == PastStats(n - 1)
         IN  before \cup {StatsAfterWin(st) : st \in before}
                    \cup {StatsAfterLoss(st) : st \in before}

\* The tiles after the letter B was typed into an empty board.
OneLetterBoard ==
    [EmptyBoard EXCEPT ![<<0, 0>>] = [content |-> "B", className |-> {"filled"}]]

\* What GAME_STATE_KEY may hold: the snapshot of a session with one letter
\* typed, as line 60 writes it; the same object without boardState; a
\* text that is not JSON.
StoredSnapshots ==
    {[json |-> j, active |-> TRUE, targetWord |-> w, currentRow |-> 0,
      currentTile |-> 1, gameOver |-> FALSE,
      boardState |-> IF j = "complete" THEN BoardState(OneLetterBoard) ELSE <<>>] :
        j \in {"complete", "noBoardState"}, w \in WORDS}
    \cup
    {[json |-> "unparsable", active |-> TRUE,
      targetWord |-> CHOOSE w \in WORDS : TRUE, currentRow |-> 0,
      currentTile |-> 0, gameOver |-> FALSE, boardState |-> <<>>]}

\* The storage at the start of the visit: stats of earlier games and no
\* snapshot, or no stats and any pair of snapshot and marker ("" is an
\* absent marker, "false" a marker of another value than line 61 writes).
StoredStates ==
    {[gameState |-> <<>>, activeGame |-> "", wordleStats |-> <<st>>] :
        st \in PastStats(MaxPastGames)}
    \cup
    {[gameState |-> g, activeGame |-> a, wordleStats |-> <<>>] :
        g \in {<<>>} \cup {<<sn>> : sn \in StoredSnapshots},
        a \in {"", "true", "false"}}

VisitInit ==
    /\ targetWord \in WORDS
    /\ currentRow = 0
    /\ currentTile = 0
    /\ gameOver = FALSE
    /\ localStorage \in StoredStates
    /\ stats = LocalStatsOrDefault(localStorage)
    /\ isValidating = FALSE
    /\ inputEnabled = TRUE
    /\ gameStarted = FALSE
    /\ board = EmptyBoard
    /\ keyClass = PlainKeys
    /\ sessionStorage \in BOOLEAN
    /\ phase = "loading"
    /\ validations = <<>>
    /\ pipelines = <<>>
    /\ pendingSaves = 0
    /\ restarts = 0
    /\ scenario = "play"
    /\ lastEvent = "other"
    /\ ScoreIdle

VisitNext ==
    \/ \E key \in KeyNames : KeyboardClick(key)
    \/ \E key \in KeyNames : Keydown(key)
    \/ \E k \in Slots, answer \in Answers : ValidatorAnswers(k, answer)
    \/ \E k \in Slots : RevealTimer(k)
    \/ \E k \in Slots : ResultTimer(k)
    \/ \E ok \in BOOLEAN : SaveSettles(ok)
    \/ \E outcome \in {"cloud", "null", "reject"} : InitGame(outcome)

VisitSpec == VisitInit /\ [][VisitNext]_vars

----------------------------------------------------------------------------
(* Claims.                                                                 *)

ScoreDone == scoreGuess # <<>> /\ scorePc = 2 * ScoreLength

Marks(L) ==
    {i \in 1..ScoreLength :
        scoreGuess[i] = L /\ scoreState.letterStatus[i] \in {"correct", "present"}}

Occurrences(L) == {i \in 1..ScoreLength : scoreTarget[i] = L}

\* C1: when the two passes are done, every position has one of the three
\* statuses, and for every letter the positions of the guess that hold it
\* and are marked correct or present are at most as many as its occurrences
\* in the target.
C1_MarksBoundedByTarget ==
    ScoreDone =>
        /\ \A i \in 1..ScoreLength :
              scoreState.letterStatus[i] \in {"correct", "present", "absent"}
        /\ \A L \in ScoreLetters :
              Cardinality(Marks(L)) <= Cardinality(Occurrences(L))

\* A guess that repeats a letter of the target: one occurrence is marked,
\* the surplus one is absent.
C1_Witness ==
    /\ ScoreDone
    /\ \E i, j \in 1..ScoreLength :
          /\ i # j
          /\ scoreGuess[i] = scoreGuess[j]
          /\ scoreState.letterStatus[i] = "absent"
          /\ scoreState.letterStatus[j] \in {"correct", "present"}

\* The submissions in flight that were made on the current row of the
\* current session.
InFlightForRow ==
    Cardinality({k \in 1..Len(validations) :
                    /\ validations[k].session = restarts
                    /\ validations[k].row = currentRow})
    + Cardinality({k \in 1..Len(pipelines) :
                    /\ pipelines[k].session = restarts
                    /\ pipelines[k].row = currentRow})

\* C2: however often ENTER is issued on a full row while a submission of
\* that row is in flight, one submission of the row is in flight at most:
\* one call of the validator, then at most one processGuess.
C2_OneSubmissionPerRow == InFlightForRow <= 1

\* C3: currentTile is in [0, WORD_LENGTH] and currentRow in
\* [0, MAX_ATTEMPTS) in every reachable state.
C3_CursorInRange ==
    /\ currentTile \in 0..WORD_LENGTH
    /\ currentRow \in 0..(MAX_ATTEMPTS - 1)

\* The last row is full and the game is not over.
C3_Witness ==
    /\ currentRow = MAX_ATTEMPTS - 1
    /\ currentTile = WORD_LENGTH
    /\ ~gameOver
    /\ phase = "running"

\* C4: in a terminal session no key event changes the row, the cursor or a
\* tile or starts a validation, and a step of the page that ends the
\* terminal state is a reset (a page load starts another process).
C4_TerminalIgnoresKeys ==
    [][gameOver =>
          /\ KeyStep => UNCHANGED <<currentRow, currentTile, board,
                                    validations, isValidating>>
          /\ ~gameOver' => (ResetGame \/ \E sameTab \in BOOLEAN : Unload(sameTab))
      ]_vars

\* ENTER was the last event handled, in a terminal session.
C4_Witness == gameOver /\ lastEvent = "enter" /\ currentTile = WORD_LENGTH

\* A submission that a reset may have overtaken.
MayBeStale == scenario = "play" /\ restarts > 0

C6_ErrorKeepsSession ==
    [][(\E k \in Slots : ValidatorAnswers(k, "error")) =>
          /\ UNCHANGED <<currentRow, currentTile, board, gameOver, stats,
                         keyClass, pipelines>>
          /\ ~isValidating'
      ]_vars

\* The validator's promise has just been rejected on the last row.
C6_Witness ==
    /\ lastEvent = "error"
    /\ ~isValidating
    /\ ~gameOver
    /\ currentRow = MAX_ATTEMPTS - 1
    /\ currentTile = WORD_LENGTH

\* C7: under the fairness of the validator and the timers, a closed gate
\* opens again.
C7_GateReopens == isValidating ~> ~isValidating

\* The gate is closed, every reveal of the guess has fired, the result
\* timer is pending.
C7_Witness ==
    /\ isValidating
    /\ Len(pipelines) = 1
    /\ pipelines[1].next = WORD_LENGTH

\* C8: while isValidating is true a key event changes nothing of the game.
C8_KeysIgnoredWhileValidating ==
    [][(isValidating /\ KeyStep) =>
          UNCHANGED <<targetWord, currentRow, currentTile, gameOver, stats,
                      isValidating, gameStarted, board, keyClass,
                      localStorage, validations, pipelines, pendingSaves>>
      ]_vars

\* ENTER was the last event handled, while the reveal of a guess runs.
C8_Witness ==
    /\ isValidating
    /\ lastEvent = "enter"
    /\ Len(pipelines) = 1
    /\ validations = <<>>

\* C9: when the remote save of a terminal transition has settled, either
\* way, localStorage holds the stats.
C9_LocalWriteUnconditional ==
    [][(\E ok \in BOOLEAN : SaveSettles(ok)) =>
          localStorage'.wordleStats = <<stats'>>
      ]_vars

\* C10: when initGame completes and localStorage holds the marker and a
\* snapshot, the session has the snapshot's target, row and cursor.
C10_RestoredOnEveryStart ==
    [][(phase = "loading" /\ phase' = "running" /\ CanRestore(localStorage)) =>
          /\ targetWord' = localStorage.gameState[1].targetWord
          /\ currentRow' = localStorage.gameState[1].currentRow
          /\ currentTile' = localStorage.gameState[1].currentTile
      ]_vars

\* initGame completes and initSessionProtection has taken the restore
\* branch of restoreGameState.
RestoreStep ==
    /\ phase = "loading"
    /\ phase' = "running"
    /\ ~sessionStorage
    /\ CanRestore(localStorage)

\* C11: after a snapshot and a restart that restores it, once initGame has
\* finished, the row and the cursor are the snapshot's and every tile has
\* the content and the classes it had at snapshot time.
C11_RoundTrip ==
    [][(RestoreStep /\ localStorage.gameState[1].json = "complete") =>
          LET state == localStorage.gameState[1]
          IN  /\ currentRow' = state.currentRow
              /\ currentTile' = state.currentTile
              /\ \A k \in 1..Len(state.boardState) :
                    LET tile == state.boardState[k]
                    IN  board'[<<tile.row, tile.col>>] =
                            [content |-> tile.content,
                             className |-> tile.className]
      ]_vars

NoGameKeys(ls) == ls.gameState = <<>> /\ ls.activeGame = ""

\* C12: the marker is stored exactly when the snapshot is, and when the
\* terminal handler has run to its end (its remote save has settled,
\* either way) or the game is reset, neither is in localStorage.
C12_KeysClearedTogether ==
    [][/\ (localStorage'.gameState = <<>>) <=> (localStorage'.activeGame = "")
       /\ ((\E ok \in BOOLEAN : SaveSettles(ok)) \/ ResetGame)
             => NoGameKeys(localStorage')
      ]_vars

\* C13: when the restore of a stored snapshot fails, the session after
\* startup is the fresh one (target, row, cursor, terminal flag as the
\* script initialised them, gameStarted false) and both keys are removed.
C13_NeverHalfApplied ==
    [][(RestoreStep /\ localStorage.gameState[1].json # "complete") =>
          /\ targetWord' = targetWord
          /\ currentRow' = 0
          /\ currentTile' = 0
          /\ gameOver' = FALSE
          /\ gameStarted' = FALSE
          /\ NoGameKeys(localStorage')
      ]_vars

\* The result timer of the k-th guess in flight fires.
ResultOf(k) == k \in 1..Len(pipelines) /\ ResultTimer(k)

\* C14: the result of a guess equal to the target makes the session
\* terminal and adds 1 to gamesPlayed, gamesWon and currentStreak;
\* maxStreak becomes the larger of the old maxStreak and the new streak.
C14_WinStats ==
    [][\A k \in Slots :
          (ResultOf(k) /\ pipelines[k].guess = targetWord) =>
              /\ gameOver'
              /\ stats'.gamesPlayed = stats.gamesPlayed + 1
              /\ stats'.gamesWon = stats.gamesWon + 1
              /\ stats'.currentStreak = stats.currentStreak + 1
              /\ stats'.maxStreak >= stats.maxStreak
              /\ stats'.maxStreak >= stats'.currentStreak
              /\ stats'.maxStreak \in {stats.maxStreak, stats'.currentStreak}
      ]_vars

\* A win after two wins and a loss: the streak is 1, the longest stays 2.
C14_Witness ==
    /\ gameOver
    /\ pendingSaves = 1
    /\ stats = [gamesPlayed |-> 4, gamesWon |-> 3,
                currentStreak |-> 1, maxStreak |-> 2]

\* C15: the result of a guess that differs from the target ends the
\* session only on the last row; there gamesPlayed grows by 1, the streak
\* becomes 0, gamesWon and maxStreak stay; on an earlier row the stats and
\* the terminal flag stay and the next row begins.
C15_LossStats ==
    [][\A k \in Slots :
          (ResultOf(k) /\ pipelines[k].guess # targetWord) =>
              IF currentRow = MAX_ATTEMPTS - 1
              THEN /\ gameOver'
                   /\ stats'.gamesPlayed = stats.gamesPlayed + 1
                   /\ stats'.currentStreak = 0
                   /\ stats'.gamesWon = stats.gamesWon
                   /\ stats'.maxStreak = stats.maxStreak
              ELSE /\ gameOver' = gameOver
                   /\ stats' = stats
                   /\ currentRow' = currentRow + 1
      ]_vars

\* A loss on the last row after one game won: the streak of 1 is gone.
C15_Witness ==
    /\ gameOver
    /\ pendingSaves = 1
    /\ currentRow = MAX_ATTEMPTS - 1
    /\ stats = [gamesPlayed |-> 2, gamesWon |-> 1,
                currentStreak |-> 0, maxStreak |-> 1]

\* C16: when loadStatsFromSupabase gives null or rejects, the stats are
\* those of localStorage (or the defaults) and initGame completes: the
\* board and the keyboard exist.
C16_LoadNeverBlocks ==
    [][(InitGame("null") \/ InitGame("reject")) =>
          /\ stats' = LocalStatsOrDefault(localStorage)
          /\ phase' = "running"
      ]_vars

\* A call of saveCompleteGameState: the page is hidden or unloads.
SaveCall == VisibilityHidden \/ \E sameTab \in BOOLEAN : Unload(sameTab)

LetterKeyStep == \E key \in Letters : KeyboardClick(key) \/ Keydown(key)

\* C17: a call of saveCompleteGameState writes the snapshot of the
\* current session and the marker when the session is started and not
\* terminal, and leaves localStorage as it is otherwise; a session is
\* started by a letter key (or restored as started), and a reset or a
\* page load makes it not started.
C17_SaveOnlyWhenStarted ==
    [][/\ SaveCall =>
            IF gameStarted /\ ~gameOver /\ boardCreated
            THEN /\ localStorage'.activeGame = "true"
                 /\ Len(localStorage'.gameState) = 1
                 /\ localStorage'.gameState[1].targetWord = targetWord
                 /\ localStorage'.gameState[1].currentRow = currentRow
                 /\ localStorage'.gameState[1].currentTile = currentTile
                 /\ localStorage'.wordleStats = localStorage.wordleStats
            ELSE localStorage' = localStorage
       /\ (~gameStarted /\ gameStarted') =>
            (LetterKeyStep \/ \E o \in LoadOutcomes : InitGame(o))
       /\ (ResetGame \/ \E sameTab \in BOOLEAN : Unload(sameTab)) => ~gameStarted'
      ]_vars

\* The snapshot of the running, started session is in localStorage.
C17_Witness ==
    /\ phase = "running"
    /\ gameStarted
    /\ ~gameOver
    /\ restarts = 0
    /\ localStorage.activeGame = "true"
    /\ localStorage.gameState # <<>>
    /\ localStorage.gameState[1].currentTile = WORD_LENGTH

BoundaryKey(key) ==
    \/ key = "DEL" /\ currentTile = 0
    \/ key \in Letters /\ currentTile = WORD_LENGTH

\* C18: the delete key at cursor 0 and a letter key at cursor WORD_LENGTH
\* change nothing of the game, on either keyboard.
C18_BoundaryNoOps ==
    [][\A key \in KeyNames :
          (BoundaryKey(key) /\ (KeyboardClick(key) \/ Keydown(key))) =>
              UNCHANGED <<targetWord, currentRow, currentTile, gameOver,
                          stats, isValidating, inputEnabled, gameStarted,
                          board, keyClass, localStorage, sessionStorage,
                          phase, validations, pipelines, pendingSaves>>
      ]_vars

\* A key at its boundary was the last event of an open, idle session on
\* its first row: the delete key on the empty row or a letter on the
\* full row.
C18_Witness ==
    /\ lastEvent = "boundary"
    /\ phase = "running"
    /\ ~gameOver
    /\ ~isValidating
    /\ currentRow = 0
    /\ currentTile = WORD_LENGTH

Rank(status) ==
    CASE status = "correct" -> 3
      [] status = "present" -> 2
      [] status = "absent"  -> 1
      [] OTHER              -> 0

\* C19: within a session no step lowers the status of a key: only a reset
\* or a page load, which start another session, clear the keys.
C19_KeyStatusUpgrades ==
    [][(\E l \in Letters : Rank(keyClass'[l]) < Rank(keyClass[l])) =>
          (ResetGame \/ \E sameTab \in BOOLEAN : Unload(sameTab))
      ]_vars

\* Every reveal of a guess has fired; the guess holds a letter twice,
\* scored correct at one position and absent at a later one, and the key
\* of the letter is correct.
C19_Witness ==
    \E k \in 1..Len(pipelines) :
        /\ pipelines[k].next = WORD_LENGTH
        /\ \E i, j \in 1..WORD_LENGTH :
              /\ i < j
              /\ pipelines[k].guess[i] = pipelines[k].guess[j]
              /\ pipelines[k].letterStatus[i] = "correct"
              /\ pipelines[k].letterStatus[j] = "absent"
              /\ keyClass[pipelines[k].guess[i]] = "correct"

\* The positions of the guess that do not match the target.
NonCorrect(g, t) == {i \in 1..Len(g) : g[i] # t[i]}

\* The two-pass reference: correct where the letters match; else present
\* when the target holds the letter at more non-correct positions than
\* the guess does at earlier non-correct positions; else absent.
Reference(g, t) ==
    [i \in 1..Len(g) |->
        IF g[i] = t[i] THEN "correct"
        ELSE IF Cardinality({k \in NonCorrect(g, t) : t[k] = g[i]})
                > Cardinality({j \in NonCorrect(g, t) : j < i /\ g[j] = g[i]})
             THEN "present"
             ELSE "absent"]

\* C20: the statuses the two loops leave are those of the reference, for
\* every guess and target; so are those processGuess hands to its timers.
C20_EqualsReference ==
    ScoreDone =>
        /\ scoreState.letterStatus = Reference(scoreGuess, scoreTarget)
        /\ LetterStatusOf(scoreGuess, scoreTarget)
              = Reference(scoreGuess, scoreTarget)

\* A scored guess with a correct, a present and an absent position.
C20_Witness ==
    /\ ScoreDone
    /\ \E i, j, k \in 1..ScoreLength :
          /\ scoreState.letterStatus[i] = "correct"
          /\ scoreState.letterStatus[j] = "present"
          /\ scoreState.letterStatus[k] = "absent"

\* A step that ends the session or the page: resetToNewGame or a page load.
SessionEnds == restarts' # restarts

\* C21: after an accepted guess the reveals run in position order 0, 1, ...,
\* all of them before the result check; the win/loss decision and the stats
\* change come only with the result check, after the last reveal; and
\* isValidating is cleared by that guess's result check and by nothing
\* earlier.
C21_RevealsThenResultThenUnlock ==
    [][/\ \A k \in 1..Len(pipelines) :
            /\ RevealTimer(k) =>
                  NextTimer(pipelines[k].next) - 1 = pipelines[k].next
            /\ ResultTimer(k) => pipelines[k].next = WORD_LENGTH
       /\ (~SessionEnds /\ (gameOver' # gameOver \/ stats' # stats)) =>
             \E k \in 1..Len(pipelines) :
                 ResultTimer(k) /\ pipelines[k].next = WORD_LENGTH
       /\ (~SessionEnds /\ pipelines # <<>> /\ isValidating /\ ~isValidating') =>
             /\ Len(pipelines) = 1
             /\ ResultTimer(1)]_vars

\* C22: while a validator answer or a reveal/result timer is pending the
\* gate stays closed; so at most one submission is in flight and every
\* submission in flight was started in the current session.
C22_NeverCutShort ==
    /\ InFlight > 0 => isValidating
    /\ InFlight <= 1
    /\ \A k \in 1..Len(validations) : validations[k].session = restarts
    /\ \A k \in 1..Len(pipelines) : pipelines[k].session = restarts

\* C23: the result check of a scored row, which is the current row of the
\* session that submitted it: a guess equal to the target makes the session
\* Won on any row; another guess on row MAX_ATTEMPTS - 1 makes it Lost; any
\* other guess moves to the start of the next row and the session stays
\* non-terminal.  Rows are scored one by one from row 0, so Lost comes after
\* exactly MAX_ATTEMPTS accepted guesses that missed.
C23_ResultOfScoredRow ==
    [][\A k \in 1..Len(pipelines) :
          ResultOf(k) =>
             LET p == pipelines[k]
             IN  /\ p.session = restarts
                 /\ p.row = currentRow
                 /\ IF p.guess = targetWord
                    THEN /\ gameOver'
                         /\ stats'.gamesWon = stats.gamesWon + 1
                    ELSE IF currentRow = MAX_ATTEMPTS - 1
                    THEN /\ gameOver'
                         /\ stats'.gamesPlayed = stats.gamesPlayed + 1
                         /\ stats'.gamesWon = stats.gamesWon
                    ELSE /\ currentRow' = currentRow + 1
                         /\ currentTile' = 0
                         /\ ~gameOver']_vars

\* The statuses are all "correct".
AllCorrect(letterStatus) ==
    \A i \in 1..Len(letterStatus) : letterStatus[i] = "correct"

\* C24: at the result check of a scored row, every tile of the row was
\* marked correct if and only if the guess equals the target, so the session
\* becomes Won (gamesWon grows) exactly when the row is all correct.
C24_AllCorrectIffWon ==
    [][\A k \in 1..Len(pipelines) :
          ResultOf(k) =>
             LET p == pipelines[k]
             IN  /\ AllCorrect(p.letterStatus) <=> (p.guess = targetWord)
                 /\ AllCorrect(p.letterStatus) <=>
                       (gameOver' /\ stats'.gamesWon = stats.gamesWon + 1)]_vars

\* C25: outside a page load, stats change only in a step that takes a
\* non-terminal session into Won or Lost, and that step raises gamesPlayed
\* by exactly 1; so no session is counted twice.
C25_StatsOnlyOnTermination ==
    [][(phase = "running" /\ ~SessionEnds /\ stats' # stats) =>
          /\ ~gameOver
          /\ gameOver'
          /\ stats'.gamesPlayed = stats.gamesPlayed + 1
          /\ \E k \in 1..Len(pipelines) : ResultTimer(k)]_vars

\* A marker or a snapshot is stored, but not the pair line 72 asks for.
InconsistentPair(ls) ==
    /\ ls.activeGame # "" \/ ls.gameState # <<>>
    /\ ~CanRestore(ls)

\* C26: when the page starts with an inconsistent pair in storage, no
\* session field is taken from storage, the session is fresh, and both
\* keys are absent afterwards.
C26_InconsistentPairCleared ==
    [][(phase = "loading" /\ phase' = "running"
            /\ InconsistentPair(localStorage)) =>
          /\ targetWord' = targetWord
          /\ currentRow' = 0
          /\ currentTile' = 0
          /\ ~gameOver'
          /\ board' = EmptyBoard
          /\ NoGameKeys(localStorage')]_vars

\* C27: the page that starts after an unload during a submission resumes
\* the session as it was before the submission: the row and target of the
\* snapshot, the cursor at WORD_LENGTH with the row's letters on the tiles,
\* not terminal, the gate open and the stats as stored, so ENTER submits
\* the same guess again.
C27_ResumedBeforeSubmission ==
    [][(phase = "loading" /\ lastEvent = "cut" /\ phase' = "running") =>
          /\ CanRestore(localStorage)
          /\ targetWord' = localStorage.gameState[1].targetWord
          /\ currentRow' = localStorage.gameState[1].currentRow
          /\ currentTile' = WORD_LENGTH
          /\ Len(RowText(board', currentRow')) = WORD_LENGTH
          /\ ~gameOver'
          /\ ~isValidating'
          /\ stats' = stats]_vars

\* C28: from stored stats with currentStreak <= maxStreak, through any wins
\* and losses, currentStreak <= maxStreak holds in every state and no step
\* lowers maxStreak.
C28_StreakBelowMax ==
    /\ [](stats.currentStreak <= stats.maxStreak)
    /\ [][stats'.maxStreak >= stats.maxStreak]_vars

\* A win after a loss and two wins: the streak of 3 is the longest so far.
C28_Witness ==
    /\ gameOver
    /\ stats = [gamesPlayed |-> 4, gamesWon |-> 3,
                currentStreak |-> 3, maxStreak |-> 3]
    /\ localStorage.wordleStats = <<[gamesPlayed |-> 3, gamesWon |-> 2,
                                     currentStreak |-> 2, maxStreak |-> 2]>>

\* C29: once the board exists, in the current row exactly the tiles at the
\* columns below currentTile hold a letter; so with the cursor at
\* WORD_LENGTH the guess read from the tiles has WORD_LENGTH letters.
C29_CursorMatchesBoard ==
    boardCreated =>
       /\ \A col \in Cols :
             (board[<<currentRow, col>>].content # "") <=> (col < currentTile)
       /\ currentTile = WORD_LENGTH =>
             Len(RowText(board, currentRow)) = WORD_LENGTH

====
